---- MODULE Spec2Model ----
(***************************************************************************)
(* Model of src/main.py: the interactive shell's input loop, its builtin   *)
(* handlers, the history synchronisation (`history -r/-w/-a`, startup load *)
(* and save on exit), the mixed pipeline executor and the all-external     *)
(* pipeline executor.                                                      *)
(*                                                                         *)
(* A line of text is the sequence of its words.  The word " " stands for   *)
(* blank space at an end of the line, so <<" ", "echo", "a">> is the line  *)
(* " echo a".  Python's command[k] is command[k+1] here (1-based).         *)
(***************************************************************************)
EXTENDS Integers, Sequences, FiniteSets, TLC

VARIABLES
    pc,                         \* where the shell is: "prompt", "mixed", "mixed_child",
                                \* "ext_popen", "ext_close", "ext_wait", "eof", "exited", "crashed"
    running,                    \* Shell.running
    history,                    \* readline's history list, entries 1..Len
    last_appended_history_len,  \* Shell.last_appended_history_len
    files,                      \* the file system: path -> [kind, lines]
    cwd,                        \* the process working directory
    histfile,                   \* os.environ.get("HISTFILE"), "" when unset
    terminal,                   \* what the current line wrote to the terminal
    nlines,                     \* number of lines read so far
    typed,                      \* Shell.run: the last `command` _get_user_input returned
    commands,                   \* the pipeline being executed
    strategy,                   \* executor chosen by _run_program for the current line
    stage,                      \* mixed executor: 1-based index of the next stage
    next_input,                 \* mixed executor: next_input
    child,                      \* mixed executor: the subprocess.run child in flight
    stage_io,                   \* mixed executor: per finished stage, the input it was
                                \* given and the text it sent to its stdout destination
    written,                    \* the `history -r/-w/-a` the last step ran, see WriteRecord
    processes,                  \* external executor: the Popen children
    pipes,                      \* external executor: pipe k is created for stage k
    pipe_input,                 \* external executor: 0 = sys.stdin, k = proc k's stdout, -1 = None
    waited,                     \* external executor: children whose wait() returned
    wait_i,                     \* external executor: index of the wait loop
    tty_in,                     \* input pending at the terminal
    tty_out                     \* what external children wrote to the shell's stdout

vars == <<pc, running, history, last_appended_history_len, files, cwd, histfile,
          terminal, nlines, typed, commands, strategy, stage, next_input, child,
          stage_io, written, processes, pipes, pipe_input, waited, wait_i, tty_in, tty_out>>

shellVars == <<running, history, last_appended_history_len, files, cwd, written>>
mixedVars == <<stage, next_input, child, stage_io>>
extVars   == <<processes, pipes, pipe_input, waited, wait_i, tty_in, tty_out>>

(***************************************************************************)
(* Bounds                                                                  *)
(***************************************************************************)
MaxLines  == 2      \* lines the input loop reads in one behaviour
MaxOut    == 2      \* writes one external child of an all-external pipeline makes
PipeCap   == 1      \* capacity of an OS pipe, in chunks
MaxStages == 3      \* stages of the all-external pipelines SpecExt starts from
MaxTokens == 4      \* tokens of the lines SpecSplit starts from

(***************************************************************************)
(* Environment: the file system, the search path, the terminal             *)
(***************************************************************************)
Paths       == {"f", "g", "/d"}
Executables == {"cat", "ls"}
Home        == "/home"


Range(s) == {s[k] : k \in 1..Len(s)}

Missing     == [kind |-> "missing", lines |-> <<>>]
Directory   == [kind |-> "dir", lines |-> <<>>]
RegularFile(lines) == [kind |-> "file", lines |-> lines]

\* contents the file "f" may have when the shell starts
TwoLines   == RegularFile(<<<<"ls">>, <<"echo", "a", " ">>>>)
ThreeLines == RegularFile(<<<<"pwd">>, <<>>, <<" ", "ls">>>>)

\* the environments the shell starts in: HISTFILE ("" when unset) and file "f"
Environments ==
    { <<"", TwoLines>>, <<"f", Missing>>, <<"f", ThreeLines>>, <<"/d", TwoLines>> }

(***************************************************************************)
(* Text                                                                    *)
(***************************************************************************)
RECURSIVE LStrip(_)
LStrip(s) == IF s # <<>> /\ Head(s) = " " THEN LStrip(Tail(s)) ELSE s

RECURSIVE RStrip(_)
RStrip(s) == IF s # <<>> /\ s[Len(s)] = " " THEN RStrip(SubSeq(s, 1, Len(s) - 1)) ELSE s

\* str.strip()
Strip(s) == RStrip(LStrip(s))

\* shlex.split on a stripped line
shlex_split(s) == SelectSeq(s, LAMBDA w : w # " ")

\* one line of output: the stream, what it is, the history index and its text
OutLine(fd, tag, idx, text) == [fd |-> fd, tag |-> tag, idx |-> idx, text |-> text]
Msg(tag, text) == OutLine("stdout", tag, 0, text)
Err(tag, text) == OutLine("stderr", tag, 0, text)

\* the value None and a str for next_input
None == [some |-> FALSE, text |-> <<>>]
Str(text) == [some |-> TRUE, text |-> text]

(***************************************************************************)
(* History file operations                                                 *)
(***************************************************************************)
\* for line in f: readline.add_history(line.strip())
RECURSIVE LoadLines(_, _)
LoadLines(h, lines) ==
    IF lines = <<>> THEN h
    ELSE LoadLines(Append(h, Strip(Head(lines))), Tail(lines))

\* input() with readline: the typed line is added to the history unless it is
\* empty or repeats the last entry
InputAddHistory(h, line) ==
    IF line = <<>> THEN h
    ELSE IF h # <<>> /\ h[Len(h)] = line THEN h
    ELSE Append(h, line)

\* for i in range(lo, hi + 1): f.write(readline.get_history_item(i) + '\n')
HistoryItems(h, lo, hi) == [k \in 1..(IF hi >= lo THEN hi - lo + 1 ELSE 0) |-> h[lo + k - 1]]

\* open(path, 'r'): "ok", FileNotFoundError or another OSError
OpenRead(fs, path) ==
    IF fs[path].kind = "missing" THEN "FileNotFoundError"
    ELSE IF fs[path].kind = "dir" THEN "OSError"
    ELSE "ok"

\* open(path, 'w') and open(path, 'a') create a missing file
OpenWrite(fs, path) == IF fs[path].kind = "dir" THEN "OSError" ELSE "ok"

\* what the terminal holds for a child that reads the shell's stdin
TtyInput == <<OutLine("stdin", "typed", 0, <<>>)>>

\* record of the `history -r/-w/-a` the last step ran: the file, the lines
\* read or sent, the cursor and the history length when it was called, the
\* file's lines before
NoWrite == [op |-> "none", path |-> "", lines |-> <<>>, cursor |-> 0, len |-> 0, prior |-> <<>>]
WriteRecord(op, path, lines, s) ==
    [op |-> op, path |-> path, lines |-> lines, cursor |-> s.last,
     len |-> Len(s.history), prior |-> s.files[path].lines]

\* The session state the handlers read and change
Session ==
    [running |-> running, history |-> history, last |-> last_appended_history_len,
     files |-> files, cwd |-> cwd, written |-> written]

\* what a handler did: the new session, the text it sent to its `stdout`
\* parameter, and the text it printed on the terminal whatever `stdout` is
Effect(s, out, term) == [s |-> s, out |-> out, term |-> term]

(***************************************************************************)
(* Builtin handlers                                                        *)
(***************************************************************************)
builtins == {"echo", "exit", "type", "pwd", "cd", "history"}

\* _check_PATH: the path of the executable, "" when there is none
CheckPATH(cmd_name) == IF cmd_name \in Executables THEN "/bin" ELSE ""

\* os.path.isdir(path)
IsDir(fs, path) == path = Home \/ (path \in Paths /\ fs[path].kind = "dir")

\* int(command[1]): the integer, or ValueError
IntTokens == {"0", "1", "2", "3", "7", "-0", "-1", "-2"}
IsInt(tok) == tok \in IntTokens
IntValue(tok) ==
    CASE tok = "0" -> 0  [] tok = "1" -> 1  [] tok = "2" -> 2  [] tok = "3" -> 3
      [] tok = "7" -> 7  [] tok = "-0" -> 0 [] tok = "-1" -> -1 [] tok = "-2" -> -2

\* history -r <path>: the cursor is left alone
HistoryRead(s, path) ==
    CASE OpenRead(s.files, path) = "ok" ->
           Effect([s EXCEPT !.history = LoadLines(@, s.files[path].lines),
                           !.written = WriteRecord("r", path, s.files[path].lines, s)],
                  <<>>, <<>>)
      [] OpenRead(s.files, path) = "FileNotFoundError" ->
           Effect(s, <<Msg("history: No such file or directory", <<path>>)>>, <<>>)
      [] OTHER ->
           Effect(s, <<Msg("history: error reading file", <<path>>)>>, <<>>)

CursorAfterWriteStale(s) == s.last

\* the cursor after `history -w`
CursorAfterWrite(s) == Len(s.history)

\* history -w <path>
HistoryWrite(s, path) ==
    IF OpenWrite(s.files, path) = "ok"
    THEN Effect([s EXCEPT !.files[path] = RegularFile(HistoryItems(s.history, 1, Len(s.history))),
                          !.written = WriteRecord("w", path, HistoryItems(s.history, 1, Len(s.history)), s),
                          !.last = CursorAfterWrite(s)],
                <<>>, <<>>)
    ELSE Effect(s, <<Msg("history: error writing to file", <<path>>)>>, <<>>)

AppendFromStart(s) == 1

\* first index `history -a` writes
AppendFrom(s) == s.last + 1

CursorAfterAppendOver(s, current_history_len) == current_history_len + 1

\* the cursor after `history -a`
CursorAfterAppend(s, current_history_len) == current_history_len

\* history -a <path>
HistoryAppend(s, path) ==
    IF OpenWrite(s.files, path) = "ok"
    THEN LET current_history_len == Len(s.history)
             new == HistoryItems(s.history, AppendFrom(s), current_history_len)
         IN  Effect([s EXCEPT !.files[path] = RegularFile(s.files[path].lines \o new),
                              !.written = WriteRecord("a", path, new, s),
                              !.last = CursorAfterAppend(s, current_history_len)],
                    <<>>, <<>>)
    ELSE Effect(s, <<Msg("history: error appending to file", <<path>>)>>, <<>>)

StartIndexAll(history_len, n) == 1

\* start_index of the listing for `history <n>`
StartIndex(history_len, n) == IF n > history_len THEN 1 ELSE history_len - n + 1

\* for i in range(start_index, end_index + 1): stdout.write(f"{i: >5}  {cmd}\n")
Listing(h, start_index, end_index) ==
    [k \in 1..(IF end_index >= start_index THEN end_index - start_index + 1 ELSE 0) |->
        OutLine("stdout", "entry", start_index + k - 1, h[start_index + k - 1])]

IsNegativeNever(n) == FALSE

\* if n < 0
IsNegative(n) == n < 0

\* `history` and `history <n>`
HistoryList(s, command) ==
    LET history_len == Len(s.history) IN
    IF Len(command) > 1
    THEN IF IsInt(command[2])
         THEN IF IsNegative(IntValue(command[2]))
              THEN Effect(s, <<Msg("history: invalid argument: negative number", <<>>)>>, <<>>)
              ELSE Effect(s, Listing(s.history, StartIndex(history_len, IntValue(command[2])),
                                     history_len), <<>>)
         ELSE Effect(s, <<Msg("history: invalid argument", <<command[2]>>)>>, <<>>)
    ELSE Effect(s, Listing(s.history, 1, history_len), <<>>)

\* _handle_history
HandleHistory(s, command) ==
    IF Len(command) >= 3 /\ command[2] = "-r" THEN HistoryRead(s, command[3])
    ELSE IF Len(command) >= 3 /\ command[2] = "-w" THEN HistoryWrite(s, command[3])
    ELSE IF Len(command) >= 3 /\ command[2] = "-a" THEN HistoryAppend(s, command[3])
    ELSE HistoryList(s, command)

RunningAfterExitStill == TRUE

\* self.running = False
RunningAfterExit == FALSE

\* _handle_exit: the save goes to HISTFILE, its error to stderr
HandleExit(s, hf) ==
    LET s1 == [s EXCEPT !.running = RunningAfterExit] IN
    IF hf # ""
    THEN IF OpenWrite(s.files, hf) = "ok"
         THEN Effect([s1 EXCEPT !.files[hf] =
                          RegularFile(HistoryItems(s.history, 1, Len(s.history)))],
                     <<>>, <<>>)
         ELSE Effect(s1, <<>>, <<Err("Error saving history", <<hf>>)>>)
    ELSE Effect(s1, <<>>, <<>>)

\* _handle_type
HandleType(s, command) ==
    IF Len(command) < 2 THEN Effect(s, <<Msg("type: missing argument", <<>>)>>, <<>>)
    ELSE IF command[2] \in builtins
         THEN Effect(s, <<Msg("is a shell builtin", <<command[2]>>)>>, <<>>)
    ELSE IF CheckPATH(command[2]) # ""
         THEN Effect(s, <<Msg("is", <<command[2], CheckPATH(command[2])>>)>>, <<>>)
    ELSE Effect(s, <<Msg("not found", <<command[2]>>)>>, <<>>)

HandleEchoInput(s, command, input_text) ==
    Effect(s, input_text.text \o <<Msg("echo", SubSeq(command, 2, Len(command)))>>, <<>>)

\* _handle_echo: input_text is not used
HandleEcho(s, command, input_text) ==
    Effect(s, <<Msg("echo", SubSeq(command, 2, Len(command)))>>, <<>>)

\* _handle_pwd
HandlePwd(s) == Effect(s, <<Msg("pwd", <<s.cwd>>)>>, <<>>)

\* _handle_cd: it has no stdout parameter, its message is printed on sys.stdout
HandleCd(s, command) ==
    IF Len(command) < 2 THEN Effect(s, <<>>, <<>>)
    ELSE IF command[2] = "~" THEN Effect([s EXCEPT !.cwd = Home], <<>>, <<>>)
    ELSE IF IsDir(s.files, command[2]) THEN Effect([s EXCEPT !.cwd = command[2]], <<>>, <<>>)
    ELSE Effect(s, <<>>, <<Msg("cd: No such file or directory", <<command[2]>>)>>)

\* _execute_builtin(command, stdout, input_text)
ExecuteBuiltin(s, hf, command, input_text) ==
    CASE command[1] = "echo"    -> HandleEcho(s, command, input_text)
      [] command[1] = "pwd"     -> HandlePwd(s)
      [] command[1] = "type"    -> HandleType(s, command)
      [] command[1] = "cd"      -> HandleCd(s, command)
      [] command[1] = "exit"    -> HandleExit(s, hf)
      [] command[1] = "history" -> HandleHistory(s, command)
      [] OTHER                  -> Effect(s, <<>>, <<>>)

\* the builtin cases of _execute_command: every handler gets stdout=None,
\* which is sys.stdout
DispatchBuiltin(s, hf, command) ==
    CASE command[1] = "exit"    -> HandleExit(s, hf)
      [] command[1] = "type"    -> HandleType(s, command)
      [] command[1] = "echo"    -> HandleEcho(s, command, None)
      [] command[1] = "pwd"     -> HandlePwd(s)
      [] command[1] = "cd"      -> HandleCd(s, command)
      [] command[1] = "history" -> HandleHistory(s, command)

\* _split_by_pipe
RECURSIVE SplitLoop(_, _, _)
SplitLoop(command, cmds, current_command) ==
    IF command = <<>>
    THEN IF current_command # <<>> THEN Append(cmds, current_command) ELSE cmds
    ELSE IF Head(command) = "|"
         THEN SplitLoop(Tail(command),
                        IF current_command # <<>> THEN Append(cmds, current_command) ELSE cmds,
                        <<>>)
         ELSE SplitLoop(Tail(command), cmds, Append(current_command, Head(command)))

RECURSIVE SplitLoopKeepEmpty(_, _, _)
SplitLoopKeepEmpty(command, cmds, current_command) ==
    IF command = <<>> THEN Append(cmds, current_command)
    ELSE IF Head(command) = "|"
         THEN SplitLoopKeepEmpty(Tail(command), Append(cmds, current_command), <<>>)
         ELSE SplitLoopKeepEmpty(Tail(command), cmds, Append(current_command, Head(command)))

SplitByPipeKeepEmpty(command) == SplitLoopKeepEmpty(command, <<>>, <<>>)

SplitByPipe(command) == SplitLoop(command, <<>>, <<>>)

AllExternalAny(cmds) == \E k \in 1..Len(cmds) : cmds[k][1] \notin builtins

\* all(cmd[0] not in self.builtins for cmd in commands)
AllExternal(cmds) == \A k \in 1..Len(cmds) : cmds[k][1] \notin builtins

\* what an external program prints, given what it reads
ProgramOutput(cmd, input) ==
    IF cmd[1] = "cat" THEN input ELSE <<Msg("ls", <<"f", "g">>)>>

(***************************************************************************)
(* Construction: Shell.__init__                                            *)
(***************************************************************************)
\* the history and the cursor after the startup load, and its message on stderr
Startup(fs, hf) ==
    IF hf = "" THEN [history |-> <<>>, last |-> 0, term |-> <<>>]
    ELSE CASE OpenRead(fs, hf) = "ok" ->
                [history |-> LoadLines(<<>>, fs[hf].lines),
                 last |-> Len(LoadLines(<<>>, fs[hf].lines)), term |-> <<>>]
           [] OpenRead(fs, hf) = "FileNotFoundError" ->
                [history |-> <<>>, last |-> 0, term |-> <<>>]
           [] OTHER ->
                [history |-> <<>>, last |-> 0,
                 term |-> <<Err("Error loading history", <<hf>>)>>]

NoChild == [stage |-> 0, stdin |-> "none", input |-> None]

InitialFs(f0) ==
    [p \in Paths |-> IF p = "f" THEN f0 ELSE IF p = "/d" THEN Directory ELSE Missing]

Constructed(hf, f0) ==
    /\ histfile = hf
    /\ files = InitialFs(f0)
    /\ history = Startup(InitialFs(f0), hf).history
    /\ last_appended_history_len = Startup(InitialFs(f0), hf).last
    /\ terminal = Startup(InitialFs(f0), hf).term
    /\ running = TRUE
    /\ cwd = Home
    /\ written = NoWrite
    /\ nlines = 0
    /\ typed = <<>>
    /\ commands = <<>>
    /\ strategy = "none"
    /\ stage = 0
    /\ next_input = None
    /\ child = NoChild
    /\ stage_io = <<>>
    /\ processes = <<>>
    /\ pipes = <<>>
    /\ pipe_input = 0
    /\ waited = {}
    /\ wait_i = 0
    /\ tty_in = TtyInput
    /\ tty_out = <<>>

Init ==
    /\ pc = "prompt"
    /\ \E env \in Environments : Constructed(env[1], env[2])

(***************************************************************************)
(* The input loop: Shell.run, _get_user_input, _execute_command            *)
(***************************************************************************)
\* the lines typed at the prompt; none holds ">" (such a line goes to os.system)
InputLines ==
    { <<>>, <<"|">>,
      <<"history">>, <<"history", "2">>, <<"history", "7">>, <<"history", "0">>,
      <<"history", "-2">>, <<"history", "x">>,
      <<"history", "-r", "f">>, <<"history", "-r", "g">>,
      <<"history", "-w", "g">>, <<"history", "-w", "/d">>,
      <<"history", "-a", "g">>, <<"history", "-a", "/d">>,
      <<" ", "echo", "a">>, <<"type", "ls">>, <<"cd", "nodir">>, <<"cd", "/d">>,
      <<"exit">>, <<"nosuch">>, <<"ls">>,
      <<"echo", "a", "b", "|", "echo", "c">>,
      <<"cd", "nodir", "|", "echo", "a">>,
      <<"cat", "|", "echo", "a">>,
      <<"echo", "a", "|", "cat">>,
      <<"echo", "a", "|", "nosuch">>,
      <<"history", "-a", "g", "|", "history", "-a", "g">>,
      <<"exit", "|", "history", "1">>,
      <<"pwd", "|">>, <<"history", "2", "|">>, <<"cd", "nodir", "|">>, <<"exit", "|">>,
      <<"ls", "|", "cat">>,
      <<"nosuch", "|", "cat">> }

\* input(prompt).strip(), then shlex.split
GetUserInput(line) == shlex_split(Strip(line))

SetSession(s) ==
    /\ running' = s.running
    /\ history' = s.history
    /\ last_appended_history_len' = s.last
    /\ files' = s.files
    /\ cwd' = s.cwd
    /\ written' = s.written

\* the session once input() has returned `line`
AfterInput(line) ==
    [Session EXCEPT !.history = InputAddHistory(@, line), !.written = NoWrite]

CanRead == pc = "prompt" /\ running /\ nlines < MaxLines

\* `if command:` is false
ReadEmpty(line) ==
    /\ CanRead
    /\ GetUserInput(line) = <<>>
    /\ SetSession(AfterInput(line))
    /\ nlines' = nlines + 1
    /\ typed' = GetUserInput(line)
    /\ terminal' = <<>>
    /\ strategy' = "none"
    /\ UNCHANGED <<pc, histfile, commands, mixedVars, extVars>>

\* a builtin without a pipe
ReadBuiltin(line) ==
    /\ CanRead
    /\ GetUserInput(line) # <<>>
    /\ "|" \notin Range(GetUserInput(line))
    /\ GetUserInput(line)[1] \in builtins
    /\ LET e == DispatchBuiltin(AfterInput(line), histfile, GetUserInput(line))
       IN  /\ SetSession(e.s)
           /\ terminal' = e.term \o e.out
    /\ nlines' = nlines + 1
    /\ typed' = GetUserInput(line)
    /\ strategy' = "none"
    /\ UNCHANGED <<pc, histfile, commands, mixedVars, extVars>>

\* one external command: subprocess.run(command) when _check_PATH finds it,
\* _handle_unknown_commands otherwise
ReadExternal(line) ==
    /\ CanRead
    /\ GetUserInput(line) # <<>>
    /\ "|" \notin Range(GetUserInput(line))
    /\ GetUserInput(line)[1] \notin builtins
    /\ SetSession(AfterInput(line))
    /\ IF CheckPATH(GetUserInput(line)[1]) # ""
       THEN /\ terminal' = ProgramOutput(GetUserInput(line), tty_in)
            /\ tty_in' = IF GetUserInput(line)[1] = "cat" THEN <<>> ELSE tty_in
       ELSE /\ terminal' = <<Msg("command not found", GetUserInput(line))>>
            /\ tty_in' = tty_in
    /\ nlines' = nlines + 1
    /\ typed' = GetUserInput(line)
    /\ strategy' = "none"
    /\ UNCHANGED <<pc, histfile, commands, mixedVars, processes, pipes, pipe_input,
                   waited, wait_i, tty_out>>

\* _run_program on a line with a pipe: split, choose the executor, enter it
ReadPipeline(line) ==
    /\ CanRead
    /\ "|" \in Range(GetUserInput(line))
    /\ SetSession(AfterInput(line))
    /\ nlines' = nlines + 1
    /\ typed' = GetUserInput(line)
    /\ terminal' = <<>>
    /\ commands' = SplitByPipe(GetUserInput(line))
    /\ IF AllExternal(SplitByPipe(GetUserInput(line)))
       THEN /\ strategy' = "AllExternal"
            /\ pc' = "ext_popen"
            /\ processes' = <<>>
            /\ pipes' = <<>>
            /\ pipe_input' = 0
            /\ waited' = {}
            /\ wait_i' = 0
            /\ tty_out' = <<>>
            /\ UNCHANGED <<mixedVars, tty_in>>
       ELSE /\ strategy' = "Mixed"
            /\ pc' = "mixed"
            /\ stage' = 1
            /\ next_input' = None
            /\ child' = NoChild
            /\ stage_io' = <<>>
            /\ UNCHANGED extVars
    /\ UNCHANGED histfile

\* `while self.running` is false
LoopExit ==
    /\ pc = "prompt"
    /\ ~running
    /\ pc' = "exited"
    /\ UNCHANGED <<shellVars, histfile, terminal, nlines, typed, commands, strategy, mixedVars, extVars>>

\* EOFError or KeyboardInterrupt from input(): print() and break
EndOfInput ==
    /\ pc = "prompt"
    /\ running
    /\ pc' = "eof"
    /\ terminal' = <<Msg("", <<>>)>>
    /\ UNCHANGED <<shellVars, histfile, nlines, typed, commands, strategy, mixedVars, extVars>>

(***************************************************************************)
(* The mixed executor: _run_mixed_pipeline, one stage at a time            *)
(***************************************************************************)
StdoutDestBuffer(is_last) == "StringIO"

\* stdout_dest = sys.stdout if is_last else StringIO()
StdoutDest(is_last) == IF is_last THEN "sys.stdout" ELSE "StringIO"

\* subprocess.run(cmd_list, input=next_input, ...): the child's stdin is a pipe
\* fed with `input` when input is a str, and the shell's own stdin when it is None
RunStdin(input) == IF input.some THEN "pipe" ELSE "shell"

CarriedStale(is_last, input, out) == input

\* if not is_last: next_input = stdout_dest.getvalue()  /  next_input = result.stdout
Carried(is_last, input, out) == IF is_last THEN input ELSE Str(out)

\* a builtin stage: _execute_builtin(cmd_list, stdout=stdout_dest, input_text=next_input)
MixedBuiltin ==
    /\ pc = "mixed"
    /\ stage <= Len(commands)
    /\ commands[stage][1] \in builtins
    /\ LET is_last == stage = Len(commands)
           e == ExecuteBuiltin([Session EXCEPT !.written = NoWrite], histfile,
                               commands[stage], next_input)
       IN  /\ SetSession(e.s)
           /\ IF StdoutDest(is_last) = "sys.stdout"
              THEN terminal' = terminal \o e.term \o e.out
              ELSE terminal' = terminal \o e.term
           /\ next_input' = Carried(is_last, next_input, e.out)
           /\ stage_io' = Append(stage_io, [input |-> next_input, out |-> e.out])
    /\ stage' = stage + 1
    /\ UNCHANGED <<pc, histfile, nlines, typed, commands, strategy, child, extVars>>

\* an external stage whose executable exists: subprocess.run starts the child
MixedRun ==
    /\ pc = "mixed"
    /\ stage <= Len(commands)
    /\ commands[stage][1] \notin builtins
    /\ CheckPATH(commands[stage][1]) # ""
    /\ pc' = "mixed_child"
    /\ child' = [stage |-> stage, stdin |-> RunStdin(next_input), input |-> next_input]
    /\ UNCHANGED <<shellVars, histfile, terminal, nlines, typed, commands, strategy, stage,
                   next_input, stage_io, extVars>>

\* an external stage whose executable does not exist: subprocess.run raises
\* FileNotFoundError, which nothing up to Shell.run catches
MixedRunFails ==
    /\ pc = "mixed"
    /\ stage <= Len(commands)
    /\ commands[stage][1] \notin builtins
    /\ CheckPATH(commands[stage][1]) = ""
    /\ pc' = "crashed"
    /\ UNCHANGED <<shellVars, histfile, terminal, nlines, typed, commands, strategy, mixedVars, extVars>>

\* subprocess.run returns: the child has read its input and terminated
MixedChildDone ==
    /\ pc = "mixed_child"
    /\ LET is_last == stage = Len(commands)
           input == IF child.stdin = "pipe" THEN child.input.text ELSE tty_in
           out == ProgramOutput(commands[stage], input)
       IN  /\ terminal' = IF is_last THEN terminal \o out ELSE terminal
           /\ next_input' = Carried(is_last, next_input, out)
           /\ stage_io' = Append(stage_io, [input |-> child.input, out |-> out])
           /\ tty_in' = IF child.stdin = "shell" /\ commands[stage][1] = "cat"
                        THEN <<>> ELSE tty_in
    /\ child' = NoChild
    /\ stage' = stage + 1
    /\ pc' = "mixed"
    /\ UNCHANGED <<shellVars, histfile, nlines, typed, commands, strategy, processes, pipes,
                   pipe_input, waited, wait_i, tty_out>>

\* the for loop is over
MixedReturn ==
    /\ pc = "mixed"
    /\ stage > Len(commands)
    /\ pc' = "prompt"
    /\ UNCHANGED <<shellVars, histfile, terminal, nlines, typed, commands, strategy, mixedVars, extVars>>

(***************************************************************************)
(* The external executor as the input loop sees it                         *)
(***************************************************************************)
\* what the last stage prints when the stages are chained
RECURSIVE ChainOutput(_, _, _)
ChainOutput(cmds, k, input) ==
    IF k > Len(cmds) THEN input
    ELSE ChainOutput(cmds, k + 1, ProgramOutput(cmds[k], input))

\* _run_external_pipeline in one step, for children that terminate: every
\* Popen succeeds and every wait returns, or the first Popen of a missing
\* executable raises FileNotFoundError, which nothing up to Shell.run catches
RunExternalPipeline ==
    /\ pc = "ext_popen"
    /\ processes = <<>>
    /\ IF \A k \in 1..Len(commands) : CheckPATH(commands[k][1]) # ""
       THEN /\ pc' = "prompt"
            /\ terminal' = IF commands = <<>> THEN terminal
                           ELSE terminal \o ChainOutput(commands, 1, tty_in)
            /\ tty_in' = IF commands # <<>> /\ commands[1][1] = "cat" THEN <<>> ELSE tty_in
       ELSE /\ pc' = "crashed"
            /\ UNCHANGED <<terminal, tty_in>>
    /\ UNCHANGED <<shellVars, histfile, nlines, typed, commands, strategy, mixedVars, processes,
                   pipes, pipe_input, waited, wait_i, tty_out>>

Next ==
    \/ \E line \in InputLines : ReadEmpty(line)
    \/ \E line \in InputLines : ReadBuiltin(line)
    \/ \E line \in InputLines : ReadExternal(line)
    \/ \E line \in InputLines : ReadPipeline(line)
    \/ LoopExit
    \/ EndOfInput
    \/ MixedBuiltin
    \/ MixedRun
    \/ MixedRunFails
    \/ MixedChildDone
    \/ MixedReturn
    \/ RunExternalPipeline

Spec == Init /\ [][Next]_vars

(***************************************************************************)
(* The external executor, step by step, with its children and pipes        *)
(*                                                                         *)
(* processes[c] is the child of stage c; pipes[k] is the pipe Popen makes  *)
(* for the stdout of stage k.  A pipe end is held by the parent (0) or by  *)
(* a child (its index).  The j-th chunk child c writes is <<c, j>>.        *)
(***************************************************************************)
Parent == 0

ChildStdinShell(input) == 0

\* stdin=pipe_input: the child's stdin is sys.stdin (0) or the read end of pipe k
ChildStdin(input) == input

\* pipe_output = sys.stdout if is_last else subprocess.PIPE
ChildStdout(i, is_last) == IF is_last THEN 0 ELSE i

ParentClosesNever(input) == FALSE

\* if pipe_input != sys.stdin: pipe_input.close()
ParentCloses(input) == input # 0

\* the for loop goes on to the next Popen, or ends and the wait loop starts
AfterStage(i, n) == IF i < n THEN "ext_popen" ELSE "ext_wait"

WaitReturnsNow(proc) == TRUE

\* proc.wait() returns once the child has terminated
WaitReturns(proc) == proc.state = "exited"

\* the process has terminated: the ends it held are closed
Release(ps, holder) ==
    [k \in 1..Len(ps) |-> [ps[k] EXCEPT !.rd = @ \ {holder}, !.wr = @ \ {holder}]]

\* subprocess.Popen(cmd, stdin=pipe_input, stdout=pipe_output, text=True):
\* the pipe is made, the child gets its ends, the parent keeps proc.stdout only
ExtPopen ==
    /\ pc = "ext_popen"
    /\ Len(processes) < Len(commands)
    /\ LET i == Len(processes) + 1
           is_last == i = Len(commands)
           proc == [cmd |-> commands[i], state |-> "running",
                    stdin |-> ChildStdin(pipe_input), stdout |-> ChildStdout(i, is_last),
                    emitted |-> <<>>, received |-> <<>>, eof |-> FALSE]
           inherited == [k \in 1..Len(pipes) |->
                           IF k = proc.stdin THEN [pipes[k] EXCEPT !.rd = @ \cup {i}]
                           ELSE pipes[k]]
       IN  /\ CheckPATH(commands[i][1]) # ""
           /\ processes' = Append(processes, proc)
           /\ pipes' = IF is_last THEN inherited
                       ELSE Append(inherited, [buf |-> <<>>, rd |-> {Parent}, wr |-> {i}])
    /\ pc' = "ext_close"
    /\ UNCHANGED <<shellVars, histfile, terminal, nlines, typed, commands, strategy, mixedVars,
                   pipe_input, waited, wait_i, tty_in, tty_out>>

\* Popen of a missing executable raises FileNotFoundError; nothing up to
\* Shell.run catches it, the shell process ends and its pipe ends go with it
ExtPopenFails ==
    /\ pc = "ext_popen"
    /\ Len(processes) < Len(commands)
    /\ CheckPATH(commands[Len(processes) + 1][1]) = ""
    /\ pc' = "crashed"
    /\ pipes' = Release(pipes, Parent)
    /\ UNCHANGED <<shellVars, histfile, terminal, nlines, typed, commands, strategy, mixedVars,
                   processes, pipe_input, waited, wait_i, tty_in, tty_out>>

\* processes.append(proc); close the previous read end; pipe_input = proc.stdout
ExtClose ==
    /\ pc = "ext_close"
    /\ LET i == Len(processes) IN
       /\ pipes' = [k \in 1..Len(pipes) |->
                      IF ParentCloses(pipe_input) /\ k = pipe_input
                      THEN [pipes[k] EXCEPT !.rd = @ \ {Parent}]
                      ELSE pipes[k]]
       /\ pipe_input' = IF processes[i].stdout = 0 THEN -1 ELSE processes[i].stdout
       /\ pc' = AfterStage(i, Len(commands))
       /\ wait_i' = 1
    /\ UNCHANGED <<shellVars, histfile, terminal, nlines, typed, commands, strategy, mixedVars,
                   processes, waited, tty_in, tty_out>>

\* for proc in processes: proc.wait()
ExtWait ==
    /\ pc = "ext_wait"
    /\ wait_i <= Len(processes)
    /\ WaitReturns(processes[wait_i])
    /\ waited' = waited \cup {wait_i}
    /\ wait_i' = wait_i + 1
    /\ UNCHANGED <<pc, shellVars, histfile, terminal, nlines, typed, commands, strategy, mixedVars,
                   processes, pipes, pipe_input, tty_in, tty_out>>

\* both loops are over: control goes back to Shell.run
ExtReturn ==
    /\ \/ pc = "ext_wait" /\ wait_i > Len(processes)
       \/ pc = "ext_popen" /\ commands = <<>>
    /\ pc' = "prompt"
    /\ UNCHANGED <<shellVars, histfile, terminal, nlines, typed, commands, strategy, mixedVars, extVars>>

Running(c) == c \in 1..Len(processes) /\ processes[c].state = "running"

\* a child reads one chunk from its stdin, or sees end of file when the pipe
\* is empty and no write end is open
ChildRead(c) ==
    /\ Running(c)
    /\ ~processes[c].eof
    /\ IF processes[c].stdin = 0
       THEN /\ IF tty_in # <<>>
               THEN /\ processes' = [processes EXCEPT ![c].received = Append(@, Head(tty_in))]
                    /\ tty_in' = Tail(tty_in)
               ELSE /\ processes' = [processes EXCEPT ![c].eof = TRUE]
                    /\ tty_in' = tty_in
            /\ pipes' = pipes
       ELSE LET k == processes[c].stdin IN
            /\ pipes[k].buf # <<>> \/ pipes[k].wr = {}
            /\ IF pipes[k].buf # <<>>
               THEN /\ processes' = [processes EXCEPT ![c].received = Append(@, Head(pipes[k].buf))]
                    /\ pipes' = [pipes EXCEPT ![k].buf = Tail(@)]
               ELSE /\ processes' = [processes EXCEPT ![c].eof = TRUE]
                    /\ pipes' = pipes
            /\ tty_in' = tty_in
    /\ UNCHANGED <<pc, shellVars, histfile, terminal, nlines, typed, commands, strategy, mixedVars,
                   pipe_input, waited, wait_i, tty_out>>

\* a child writes its next chunk to its stdout; it blocks while the pipe is
\* full, and SIGPIPE ends it when no read end is open
ChildWrite(c) ==
    /\ Running(c)
    /\ Len(processes[c].emitted) < MaxOut
    /\ LET chunk == <<c, Len(processes[c].emitted) + 1>> IN
       IF processes[c].stdout = 0
       THEN /\ processes' = [processes EXCEPT ![c].emitted = Append(@, chunk)]
            /\ tty_out' = Append(tty_out, chunk)
            /\ pipes' = pipes
       ELSE LET k == processes[c].stdout IN
            /\ pipes[k].rd = {} \/ Len(pipes[k].buf) < PipeCap
            /\ IF pipes[k].rd = {}
               THEN /\ processes' = [processes EXCEPT ![c].state = "exited"]
                    /\ pipes' = Release(pipes, c)
               ELSE /\ processes' = [processes EXCEPT ![c].emitted = Append(@, chunk)]
                    /\ pipes' = [pipes EXCEPT ![k].buf = Append(@, chunk)]
            /\ tty_out' = tty_out
    /\ UNCHANGED <<pc, shellVars, histfile, terminal, nlines, typed, commands, strategy, mixedVars,
                   pipe_input, waited, wait_i, tty_in>>

\* a child terminates
ChildExit(c) ==
    /\ Running(c)
    /\ processes' = [processes EXCEPT ![c].state = "exited"]
    /\ pipes' = Release(pipes, c)
    /\ UNCHANGED <<pc, shellVars, histfile, terminal, nlines, typed, commands, strategy, mixedVars,
                   pipe_input, waited, wait_i, tty_in, tty_out>>

\* the line of a pipeline
RECURSIVE JoinPipe(_)
JoinPipe(cmds) ==
    IF cmds = <<>> THEN <<"|">>
    ELSE IF Len(cmds) = 1 THEN Head(cmds) \o <<"|">>
    ELSE Head(cmds) \o <<"|">> \o JoinPipe(Tail(cmds))

\* the all-external pipelines of up to MaxStages stages
ExtNames == {"cat", "nosuch"}
ExtPipelines ==
    UNION { { [k \in 1..n |-> <<f[k]>>] : f \in [1..n -> ExtNames] } : n \in 0..MaxStages }

\* the shell has read the line of an all-external pipeline and _run_program
\* has called _run_external_pipeline
InitExt ==
    /\ pc = "ext_popen"
    /\ \E cmds \in ExtPipelines :
         /\ commands = cmds
         /\ history = <<JoinPipe(cmds)>>
         /\ typed = JoinPipe(cmds)
    /\ strategy = "AllExternal"
    /\ nlines = 1
    /\ histfile = ""
    /\ files = InitialFs(TwoLines)
    /\ last_appended_history_len = 0
    /\ terminal = <<>>
    /\ running = TRUE
    /\ cwd = Home
    /\ written = NoWrite
    /\ stage = 0
    /\ next_input = None
    /\ child = NoChild
    /\ stage_io = <<>>
    /\ processes = <<>>
    /\ pipes = <<>>
    /\ pipe_input = 0
    /\ waited = {}
    /\ wait_i = 0
    /\ tty_in = TtyInput
    /\ tty_out = <<>>

NextExt ==
    \/ ExtPopen
    \/ ExtPopenFails
    \/ ExtClose
    \/ ExtWait
    \/ ExtReturn
    \/ \E c \in 1..MaxStages : ChildRead(c)
    \/ \E c \in 1..MaxStages : ChildWrite(c)
    \/ \E c \in 1..MaxStages : ChildExit(c)

SpecExt == InitExt /\ [][NextExt]_vars

(***************************************************************************)
(* Properties                                                              *)
(***************************************************************************)
Min(a, b) == IF a < b THEN a ELSE b

\* the last n entries of h as `history` lists them
LastEntries(h, n) ==
    [k \in 1..Min(n, Len(h)) |->
        OutLine("stdout", "entry", Len(h) - Min(n, Len(h)) + k, h[Len(h) - Min(n, Len(h)) + k])]

\* C1: after a successful load, at startup from HISTFILE or by `history -r
\* PATH`, the cursor last_appended_history_len equals the length of the
\* history, so that a following `history -a` writes none of the loaded entries.
C1_LoadSetsCursor ==
    /\ (nlines = 0 /\ histfile # "" /\ OpenRead(files, histfile) = "ok")
          => last_appended_history_len = Len(history)
    /\ written.op = "r" => last_appended_history_len = Len(history)

\* C2: `history -a PATH` appends to the file exactly the entries whose index
\* is greater than the cursor, in index order, and then sets the cursor to the
\* length of the history; a `history -a` called with the cursor at the end of
\* the history, as the second of two successive calls is, writes nothing.
C2_AppendNew ==
    written.op = "a" =>
        /\ written.len = Len(history)
        /\ written.lines = SubSeq(history, written.cursor + 1, Len(history))
        /\ files[written.path].kind = "file"
        /\ files[written.path].lines = written.prior \o written.lines
        /\ last_appended_history_len = Len(history)
        /\ (written.cursor = written.len => written.lines = <<>>)

\* the second of two successive `history -a g`: the first one filled the file,
\* this one found the cursor at the end and wrote nothing
C2_Witness ==
    /\ written.op = "a"
    /\ written.prior # <<>>
    /\ written.cursor = written.len
    /\ written.len > 0
    /\ written.lines = <<>>
    /\ files[written.path].lines = written.prior

\* the shell is back at the prompt after running `history <tok>` without a pipe
RanHistoryCount(tok) == pc = "prompt" /\ nlines > 0 /\ typed = <<"history", tok>>

DashCounts == {"-1", "-2"}

\* C3 as stated: `history -N` with a dash-prefixed count lists the last
\* min(N, length) entries with their indices and is not an error.
C3_DashCountLists ==
    \A tok \in DashCounts :
        RanHistoryCount(tok) => terminal = LastEntries(history, 0 - IntValue(tok))

\* C3 as amended: `history N` with a count N >= 0 lists the last min(N, length)
\* entries with their 1-based indices; `history -N` with N > 0 is a negative
\* number: it prints the invalid-argument message and lists no entry.
C3_CountLists ==
    \A tok \in IntTokens :
        RanHistoryCount(tok) =>
            IF IntValue(tok) >= 0
            THEN terminal = LastEntries(history, IntValue(tok))
            ELSE terminal = <<Msg("history: invalid argument: negative number", <<>>)>>

\* `history -2` on a history of three entries or more printed the message,
\* and `history 2` would have listed two entries
C3_Witness ==
    /\ RanHistoryCount("-2")
    /\ Len(history) >= 3
    /\ terminal = <<Msg("history: invalid argument: negative number", <<>>)>>
    /\ Len(LastEntries(history, 2)) = 2

\* control has left _run_external_pipeline, by return or by exception
LeftExecutor == strategy = "AllExternal" /\ pc \in {"prompt", "exited", "eof", "crashed"}

SomeStageNotFound == \E k \in 1..Len(commands) : CheckPATH(commands[k][1]) = ""

\* C4: when a stage of an all-external pipeline names a command that is not
\* an executable, "command not found" is reported and every child already
\* launched has been waited on when the executor gives control back.
C4_NotFoundStillWaits ==
    (LeftExecutor /\ SomeStageNotFound) =>
        /\ \E k \in 1..Len(terminal) : terminal[k].tag = "command not found"
        /\ \A c \in 1..Len(processes) : c \in waited

\* C5: the input loop stops only after `exit` has run or on end of input or
\* an interrupt at the prompt; no error ends it.
C5_OnlyExitOrEofStops ==
    pc \in {"exited", "eof", "crashed"} => (pc = "eof" \/ ~running)

\* C6: in a mixed pipeline next_input starts absent and the first stage is
\* never given the shell's own standard input.
C6_StdinNotForwarded ==
    /\ (pc = "mixed" /\ stage = 1) => next_input = None
    /\ (pc = "mixed_child" /\ child.stage = 1) => child.stdin # "shell"

\* C7: in a mixed pipeline a builtin stage that is not the last one writes
\* nothing to the terminal: as long as the last stage has not run, the line
\* has put nothing on the terminal.
C7_NonLastBuiltinSilent ==
    (pc \in {"mixed", "mixed_child"} /\ stage <= Len(commands)) => terminal = <<>>

\* C8: in an all-external pipeline no wait on a child happens before all the
\* stages are launched, and the executor returns only after every child has
\* terminated and been waited on.
C8_LaunchAllThenWaitAll ==
    /\ (pc \in {"ext_popen", "ext_close"}) => waited = {}
    /\ waited # {} => Len(processes) = Len(commands)
    /\ pc = "prompt" =>
           /\ Len(processes) = Len(commands)
           /\ \A c \in 1..Len(commands) : processes[c].state = "exited" /\ c \in waited

\* a pipeline of two stages or more has returned
C8_Witness ==
    /\ pc = "prompt"
    /\ Len(commands) >= 2
    /\ waited = 1..Len(commands)
    /\ \E c \in 1..Len(commands) : processes[c].emitted # <<>>

\* C9: the parent never holds a write end; the read end of pipe k is held by
\* the parent only until stage k+1 is launched and is handed to stage k+1
\* alone; when the wait loop starts and when the executor returns the parent
\* holds no pipe end; an end that is open is held by a live process.
C9_PipeEnds ==
    \A k \in 1..Len(pipes) :
        /\ pipes[k].wr \subseteq {k}
        /\ pipes[k].rd \subseteq {Parent, k + 1}
        /\ \A c \in (pipes[k].wr \cup pipes[k].rd) \ {Parent} : Running(c)
        /\ Parent \in pipes[k].rd =>
              \/ pc = "ext_popen" /\ k = Len(processes)
              \/ pc = "ext_close" /\ k \in {Len(processes) - 1, Len(processes)}

\* stage 2 has just been launched: its child alone holds the read end of
\* pipe 1, the parent holds the read end of pipe 2 for stage 3
C9_Witness ==
    /\ pc = "ext_popen"
    /\ Len(processes) = 2
    /\ Len(pipes) = 2
    /\ pipes[1].rd = {2}
    /\ pipes[2].rd = {Parent}

\* C10: stage 1 reads the shell's stdin, the last stage writes the shell's
\* stdout, and what stage c > 1 has read followed by what waits in its pipe
\* is what stage c-1 has written, in order; at end of file stage c has read
\* all of it.
C10_StreamIntegrity ==
    \A c \in 1..Len(processes) :
        /\ c = 1 => /\ processes[c].stdin = 0
                    /\ processes[c].received \o tty_in = TtyInput
        /\ c = Len(commands) => /\ processes[c].stdout = 0
                                /\ tty_out = processes[c].emitted
        /\ c < Len(commands) => processes[c].stdout = c
        /\ c > 1 => /\ processes[c].stdin = c - 1
                    /\ processes[c].received \o pipes[c - 1].buf = processes[c - 1].emitted
                    /\ processes[c].eof => processes[c].received = processes[c - 1].emitted

\* the last of three stages has read to end of file all that stage 2 wrote
C10_Witness ==
    /\ Len(processes) = 3
    /\ processes[3].eof
    /\ Len(processes[2].emitted) >= 2
    /\ processes[3].received = processes[2].emitted
    /\ Len(processes[1].emitted) >= 1

\* C11: a mixed pipeline runs one stage at a time: a stage starts only when
\* every earlier stage has finished, and the input given to each stage after
\* the first is the whole text the stage before it sent to its buffer.
C11_OneStageAtATime ==
    strategy = "Mixed" =>
        /\ Len(stage_io) <= Len(commands)
        /\ pc = "mixed" => (child = NoChild /\ Len(stage_io) = stage - 1)
        /\ pc = "mixed_child" =>
              /\ child.stage = stage
              /\ Len(stage_io) = stage - 1
              /\ child.input = IF stage = 1 THEN None ELSE Str(stage_io[stage - 1].out)
        /\ \A i \in 2..Len(stage_io) : stage_io[i].input = Str(stage_io[i - 1].out)

\* `echo a | cat` has run: cat was given echo's line and printed it
C11_Witness ==
    /\ pc = "prompt"
    /\ typed = <<"echo", "a", "|", "cat">>
    /\ Len(stage_io) = 2
    /\ stage_io[1].out = <<Msg("echo", <<"a">>)>>
    /\ stage_io[2].input = Str(stage_io[1].out)
    /\ terminal = stage_io[1].out

(***************************************************************************)
(* The splitter on its own: _split_by_pipe applied to every short line     *)
(***************************************************************************)
SplitTokens == {"|", "a", "echo"}
SplitInputs == UNION { [1..n -> SplitTokens] : n \in 0..MaxTokens }

\* _run_program is about to split the tokens in `typed`
InitSplit ==
    /\ pc = "split"
    /\ typed \in SplitInputs
    /\ commands = <<>>
    /\ history = <<>>
    /\ strategy = "none"
    /\ nlines = 1
    /\ histfile = ""
    /\ files = InitialFs(TwoLines)
    /\ last_appended_history_len = 0
    /\ terminal = <<>>
    /\ running = TRUE
    /\ cwd = Home
    /\ written = NoWrite
    /\ stage = 0
    /\ next_input = None
    /\ child = NoChild
    /\ stage_io = <<>>
    /\ processes = <<>>
    /\ pipes = <<>>
    /\ pipe_input = 0
    /\ waited = {}
    /\ wait_i = 0
    /\ tty_in = TtyInput
    /\ tty_out = <<>>

\* commands = self._split_by_pipe(command)
Split ==
    /\ pc = "split"
    /\ commands' = SplitByPipe(typed)
    /\ pc' = "split_done"
    /\ UNCHANGED <<shellVars, histfile, terminal, nlines, typed, strategy, mixedVars, extVars>>

NextSplit == Split

SpecSplit == InitSplit /\ [][NextSplit]_vars

RECURSIVE Flatten(_)
Flatten(ss) == IF ss = <<>> THEN <<>> ELSE Head(ss) \o Flatten(Tail(ss))

\* C12: the stages the splitter returns are all non-empty and hold no `|`,
\* and put end to end they are the input with every `|` removed; leading,
\* trailing and consecutive `|` make no empty stage.
C12_SplitStages ==
    pc = "split_done" =>
        /\ \A k \in 1..Len(commands) : commands[k] # <<>> /\ "|" \notin Range(commands[k])
        /\ Flatten(commands) = SelectSeq(typed, LAMBDA t : t # "|")

\* a line with a leading, two consecutive and a trailing `|` gave one stage
C12_Witness ==
    /\ pc = "split_done"
    /\ typed = <<"|", "a", "|", "|">>
    /\ commands = <<<<"a">>>>

\* the builtin registry as the specification lists it
Registry == {"echo", "exit", "type", "pwd", "cd", "history"}

\* C13: a pipeline of one stage or more is AllExternal, and goes to the
\* external executor, iff no stage's command name is in the registry;
\* otherwise it is Mixed and the mixed executor runs its stages.
C13_StrategySelection ==
    /\ (strategy # "none" /\ Len(commands) >= 1) =>
          /\ strategy \in {"AllExternal", "Mixed"}
          /\ strategy = "AllExternal" <=> \A k \in 1..Len(commands) : commands[k][1] \notin Registry
    /\ pc \in {"ext_popen", "ext_close", "ext_wait"} => strategy = "AllExternal"
    /\ pc \in {"mixed", "mixed_child"} => strategy = "Mixed"
    /\ strategy = "AllExternal" => pc \notin {"mixed", "mixed_child"}
    /\ (strategy = "Mixed" /\ pc = "prompt") => Len(stage_io) = Len(commands)

\* `cat | echo a`, one external and one builtin stage, is in the mixed executor
C13_Witness ==
    /\ pc = "mixed"
    /\ stage = 1
    /\ typed = <<"cat", "|", "echo", "a">>
    /\ commands = <<<<"cat">>, <<"echo", "a">>>>
    /\ strategy = "Mixed"

\* C14: a pipeline of the single builtin stage is Mixed, and the step the mixed
\* executor takes for it leaves the terminal output, the running flag, the
\* working directory, the history, the cursor and the files exactly as the
\* direct dispatch of that builtin from the same state would.
C14_SingleBuiltinAsDirect ==
    [][ (pc = "mixed" /\ stage = 1 /\ Len(commands) = 1 /\ commands[1][1] \in Registry) =>
           LET d == DispatchBuiltin(Session, histfile, commands[1]) IN
           /\ strategy = "Mixed"
           /\ terminal' = terminal \o d.term \o d.out
           /\ running' = d.s.running
           /\ cwd' = d.s.cwd
           /\ history' = d.s.history
           /\ last_appended_history_len' = d.s.last
           /\ files' = d.s.files ]_vars

\* `history 2 |` has run through the mixed executor and listed two entries
C14_Witness ==
    /\ pc = "prompt"
    /\ typed = <<"history", "2", "|">>
    /\ strategy = "Mixed"
    /\ Len(stage_io) = 1
    /\ terminal = LastEntries(history, 2)
    /\ Len(terminal) = 2

BuiltinCommands ==
    { <<"echo", "c">>, <<"pwd">>, <<"type", "ls">>, <<"cd", "nodir">>, <<"cd", "/d">>,
      <<"exit">>, <<"history">>, <<"history", "2">>, <<"history", "-r", "f">>,
      <<"history", "-w", "g">>, <<"history", "-a", "g">> }

CarriedInputs == { Str(<<>>), Str(<<Msg("echo", <<"a", "b">>)>>) }

\* C15: what a builtin stage emits and does is the same whatever carried
\* input it is given, and `echo a b | echo c` shows exactly `c`.
C15_CarriedInputIgnored ==
    /\ \A cmd \in BuiltinCommands : \A input \in CarriedInputs :
          ExecuteBuiltin(Session, histfile, cmd, input) = ExecuteBuiltin(Session, histfile, cmd, None)
    /\ (pc = "prompt" /\ typed = <<"echo", "a", "b", "|", "echo", "c">>) =>
          terminal = <<Msg("echo", <<"c">>)>>

\* `echo a b | echo c` has run: the second echo was given "a b" and showed "c"
C15_Witness ==
    /\ pc = "prompt"
    /\ typed = <<"echo", "a", "b", "|", "echo", "c">>
    /\ Len(stage_io) = 2
    /\ stage_io[2].input = Str(<<Msg("echo", <<"a", "b">>)>>)
    /\ terminal = <<Msg("echo", <<"c">>)>>

\* C16: `history -w PATH` replaces the file's content by every entry of the
\* history, one per line, in index order, whatever the file held and
\* wherever the cursor was, and sets the cursor to the history length.
C16_WriteAll ==
    written.op = "w" =>
        /\ written.len = Len(history)
        /\ written.lines = history
        /\ files[written.path] = RegularFile(history)
        /\ last_appended_history_len = Len(history)

\* `history -w g` on a file that held something else, with the cursor behind
C16_Witness ==
    /\ written.op = "w"
    /\ written.prior # <<>>
    /\ written.prior # history
    /\ written.cursor < written.len
    /\ files[written.path].lines = history
    /\ last_appended_history_len = Len(history)

\* C17: after `history -w F`, loading F into an empty history gives the
\* entries of the original history, one for one and in the same order.
C17_RoundTrip ==
    written.op = "w" => LoadLines(<<>>, files[written.path].lines) = history

\* the step that reads the line `history <tok>` and runs it
HistoryCountStep ==
    /\ pc = "prompt"
    /\ nlines' = nlines + 1
    /\ Len(typed') = 2
    /\ typed'[1] = "history"

\* C18: `history n` with an integer n >= 0 emits exactly the last
\* min(n, length) entries with their indices (all of them when n exceeds the
\* length, none when n = 0); a negative or non-integer argument emits one
\* message and no entry; the shell stays at the prompt, and the handler
\* leaves the history, the cursor and the files alone.
C18_HistoryCount ==
    [][ HistoryCountStep =>
          LET tok == typed'[2] IN
          /\ pc' = "prompt"
          /\ history' \in {history, Append(history, typed')}
          /\ last_appended_history_len' = last_appended_history_len
          /\ files' = files
          /\ IF IsInt(tok) /\ IntValue(tok) >= 0
             THEN /\ terminal' = LastEntries(history', IntValue(tok))
                  /\ IntValue(tok) = 0 => terminal' = <<>>
                  /\ IntValue(tok) > Len(history') => Len(terminal') = Len(history')
             ELSE /\ Len(terminal') = 1
                  /\ terminal'[1].tag # "entry"
                  /\ ~IsInt(tok) => terminal'[1].text = <<tok>> ]_vars

\* `history x` printed the message that names x
C18_Witness ==
    /\ RanHistoryCount("x")
    /\ Len(history) >= 2
    /\ terminal = <<Msg("history: invalid argument", <<"x">>)>>

\* the step in which the exit builtin runs, typed alone or as a pipeline stage
ExitStep ==
    \/ /\ pc = "prompt"
       /\ nlines' = nlines + 1
       /\ typed' # <<>>
       /\ typed'[1] = "exit"
       /\ "|" \notin Range(typed')
    \/ /\ pc = "mixed"
       /\ stage' = stage + 1
       /\ commands[stage][1] = "exit"

\* C19: the step that runs exit leaves the running flag false and, when
\* HISTFILE is set and can be opened, the file holding every entry of the
\* history in index order; once the flag is false it stays false and no
\* further line is read.
C19_ExitStops ==
    [][ /\ ExitStep =>
             /\ ~running'
             /\ (histfile # "" /\ OpenWrite(files, histfile) = "ok") =>
                    files'[histfile] = RegularFile(history')
        /\ ~running => (~running' /\ nlines' = nlines) ]_vars

\* exit ran as the first stage of `exit | history 1`: the loop has stopped
\* and HISTFILE holds the history
C19_Witness ==
    /\ pc = "exited"
    /\ ~running
    /\ typed = <<"exit", "|", "history", "1">>
    /\ Len(stage_io) = 2
    /\ histfile = "f"
    /\ files["f"] = RegularFile(history)

\* the step that reads `history -w PATH` or `history -a PATH` for a path that
\* cannot be opened
FailedSyncStep ==
    /\ pc = "prompt"
    /\ nlines' = nlines + 1
    /\ Len(typed') = 3
    /\ typed'[1] = "history"
    /\ typed'[2] \in {"-w", "-a"}
    /\ OpenWrite(files, typed'[3]) # "ok"

\* C20: the cursor is always between 0 and the history length; no step
\* shortens the history or changes an entry it holds; a `history -w` or
\* `history -a` that fails leaves the cursor as it was.
C20_CursorWithinStore ==
    /\ [](0 <= last_appended_history_len /\ last_appended_history_len <= Len(history))
    /\ [][ /\ Len(history') >= Len(history)
           /\ SubSeq(history', 1, Len(history)) = history
           /\ FailedSyncStep => last_appended_history_len' = last_appended_history_len ]_vars

\* `history -a /d` failed: the message is out, the cursor is where the
\* startup load left it, behind the history
C20_Witness ==
    /\ pc = "prompt"
    /\ typed = <<"history", "-a", "/d">>
    /\ terminal = <<Msg("history: error appending to file", <<"/d">>)>>
    /\ last_appended_history_len > 0
    /\ last_appended_history_len < Len(history)

====
